---- MODULE Spec2Model ----
(***************************************************************************)
(* Earnings screen of the Task-App repository: the daily income tracker    *)
(* of src/app/(tabs)/earnings.tsx (EarningsScreen).                        *)
(*                                                                         *)
(* Calendar days are numbered 1, 2, ... ; a month is MonthLen consecutive  *)
(* days.  Every date the screen stores or compares has been passed through *)
(* normalizeDate (local midnight), so a date is modelled by its day        *)
(* number.  Money is counted in naira; the amounts a user types are        *)
(* multiples of AmountStep, half the daily goal.  The audit timestamps createdAt / updatedAt    *)
(* of a record are written once and never read by the screen; they are     *)
(* not part of the record here.                                            *)
(*                                                                         *)
(* The second part models the rest of the app as far as its storage goes:  *)
(* the onboarding gate of the task list, the project detail screen         *)
(* (src/app/add-task-simple.tsx) and the projects and tasks that           *)
(* StorageService (src/services/validation-service.ts) keeps.              *)
(***************************************************************************)
EXTENDS Integers, Sequences, FiniteSets, TLC

\* ---------------------------------------------------------------- bounds
MonthLen == 4
LastDay == 5
MaxUnits == 5
MaxId == 3

\* ------------------------------------------------------------- constants
DAILY_GOAL == 28000

\* the amounts typed are counted in halves of the daily goal
AmountStep == DAILY_GOAL \div 2

\* the screen is first opened on day FirstDay and the clock runs on to day
\* LastDay, one month's length in all; the days before FirstDay have no
\* record of the user.  The month navigation is followed through the month
\* of LastDay
FirstDay == LastDay - MonthLen + 1
Days == 1..LastDay
Months == 0..((LastDay - 1) \div MonthLen)

VARIABLES
    earnings,       \* useState<DailyEarning[]>: the in-memory list
    stored,         \* AsyncStorage item STORAGE_KEY: the persisted list
    hasStored,      \* whether AsyncStorage holds an item under STORAGE_KEY
    savings,        \* the savings balance the savings jar shows; no handler
                    \* of the screen writes it
    selectedDate,   \* useState(new Date()): the date a new entry gets
    currentMonth,   \* useState(new Date()): the month on display
    today,          \* the wall clock, new Date()
    nextId,         \* source of fresh ids (Date.now(), Math.random())
    alert,          \* the Alert.alert the last handler showed, if any
    last,           \* the last handler that ran, its inputs and pre-state
    storedProjects, \* AsyncStorage item STORAGE_KEYS.PROJECTS
    storedTasks,    \* AsyncStorage item STORAGE_KEYS.TASKS
    projectId,      \* the project the project detail screen is opened on
    project,        \* useState<Project | null> of the project detail screen
    route,          \* the screen the router shows
    onboardingCompleted,  \* AsyncStorage item STORAGE_KEYS.ONBOARDING_COMPLETED
    effectPending   \* the task list is mounted and its mount effect
                    \* (checkOnboardingStatus) has not run yet

vars == <<earnings, stored, hasStored, savings, selectedDate, currentMonth,
          today, nextId, alert, last, storedProjects, storedTasks,
          projectId, project, route, onboardingCompleted, effectPending>>

\* the state of the earnings screen, and the state of the rest of the app
earningsVars == <<earnings, stored, hasStored, savings, selectedDate,
                  currentMonth, today>>
appVars == <<storedProjects, storedTasks, projectId, project, route,
             onboardingCompleted, effectPending>>

\* ----------------------------------------------------------- calendar
MonthOf(d) == (d - 1) \div MonthLen
DayOfMonth(d) == ((d - 1) % MonthLen) + 1
\* a start at the first day of the calendar
StartOfMonth_Epoch(d) == 1
StartOfMonth(d) == MonthOf(d) * MonthLen + 1
DaysInMonth(m) == MonthLen

Min(a, b) == IF a <= b THEN a ELSE b

\* ----------------------------------------------------------- sequences
RECURSIVE SumAmounts(_)
SumAmounts(s) ==
    IF s = << >> THEN 0 ELSE Head(s).amount + SumAmounts(Tail(s))

\* insert e into a list ordered by descending date, after every element
\* that does not sort after it (Array.prototype.sort is stable)
RECURSIVE InsertDesc(_, _)
InsertDesc(e, s) ==
    IF s = << >> THEN <<e>>
    ELSE IF Head(s).date >= e.date THEN <<Head(s)>> \o InsertDesc(e, Tail(s))
    ELSE <<e>> \o s

RECURSIVE SortDesc(_)
SortDesc(s) ==
    IF s = << >> THEN << >>
    ELSE InsertDesc(Head(s), SortDesc(Tail(s)))

HasEntry(list, d) == \E i \in 1..Len(list) : list[i].date = d

\* ------------------------------------------------------------- parsing
\* the amount text field: text that is no number, or a number: below 0, 0,
\* half the daily goal, the daily goal, or MaxUnits halves of it;
\* parseFloat gives NaN for text with no leading number
AmountTexts ==
    {[kind |-> "junk", val |-> 0]} \cup
    {[kind |-> "num", val |-> k * AmountStep] : k \in {-1, 0, 1, 2, MaxUnits}}

\* a parser that drops the sign
parseFloat_Abs(text) ==
    IF text.kind = "num"
    THEN [nan |-> FALSE, num |-> IF text.val < 0 THEN 0 - text.val ELSE text.val]
    ELSE [nan |-> TRUE, num |-> 0]

parseFloat(text) ==
    IF text.kind = "num" THEN [nan |-> FALSE, num |-> text.val]
    ELSE [nan |-> TRUE, num |-> 0]

\* a validation that tests for zero where it should test the sign
InvalidAmount_NonZero(amountNum) == amountNum.nan \/ amountNum.num = 0

\* a validation that forgets the sign test
InvalidAmount_NaNOnly(amountNum) == amountNum.nan

InvalidAmount(amountNum) == amountNum.nan \/ amountNum.num < 0

\* ------------------------------------------------------ applyDebtPayment
\* the days from the start of today's month through today without an entry,
\* oldest first
RECURSIVE DebtDaysFrom(_, _, _)
DebtDaysFrom(allEarnings, d, now) ==
    IF d > now THEN << >>
    ELSE (IF HasEntry(allEarnings, d) THEN << >> ELSE <<d>>)
         \o DebtDaysFrom(allEarnings, d + 1, now)

\* the debt days taken newest first
DebtDays_NewestFirst(allEarnings, now) ==
    LET days == DebtDaysFrom(allEarnings, StartOfMonth(now), now)
    IN  [i \in 1..Len(days) |-> days[Len(days) + 1 - i]]

DebtDays(allEarnings, now) ==
    DebtDaysFrom(allEarnings, StartOfMonth(now), now)

\* a payment that is always a whole daily goal
PaymentAmount_Full(remainingSurplus) == DAILY_GOAL

\* a payment that takes all that is left
PaymentAmount_All(remainingSurplus) == remainingSurplus

PaymentAmount(remainingSurplus) == Min(remainingSurplus, DAILY_GOAL)

RECURSIVE NewEntries(_, _, _, _)
NewEntries(debtDays, remainingSurplus, id, sel) ==
    IF debtDays = << >> \/ remainingSurplus <= 0 THEN << >>
    ELSE <<[id |-> id,
            date |-> Head(debtDays),
            amount |-> PaymentAmount(remainingSurplus),
            goal |-> DAILY_GOAL,
            notes |-> "Auto-paid from surplus"]>>
         \o NewEntries(Tail(debtDays),
                       remainingSurplus - PaymentAmount(remainingSurplus),
                       id + 1, sel)

applyDebtPayment(allEarnings, surplus, now, id, sel) ==
    allEarnings \o NewEntries(DebtDays(allEarnings, now), surplus, id, sel)

\* ---------------------------------------------------------- persistence
\* JSON.stringify writes a Date as its ISO-8601 string; loadEarnings turns
\* the string back into a Date with new Date(e.date)
toISOString(d) == [iso |-> d]
newDate(s) == s.iso

RECURSIVE stringify(_)
stringify(list) ==
    IF list = << >> THEN << >>
    ELSE <<[Head(list) EXCEPT !.date = toISOString(Head(list).date)]>>
         \o stringify(Tail(list))

RECURSIVE earningsWithDates(_)
earningsWithDates(parsed) ==
    IF parsed = << >> THEN << >>
    ELSE <<[Head(parsed) EXCEPT !.date = newDate(Head(parsed).date)]>>
         \o earningsWithDates(Tail(parsed))

\* ----------------------------------------------------------- statistics
\* a filter that forgets the month
getMonthEarnings_All(list, month) == list

getMonthEarnings(list, month) ==
    SelectSeq(list, LAMBDA e : MonthOf(e.date) = month)

\* a day count that leaves today out
DaysPassed_BeforeToday(month, now) ==
    IF month = MonthOf(now) THEN DayOfMonth(now) - 1 ELSE DaysInMonth(month)

DaysPassed(month, now) ==
    IF month = MonthOf(now) THEN DayOfMonth(now) ELSE DaysInMonth(month)

\* a / b as a fraction; JavaScript divides as reals, the integers do not
Divide(a, b) == [num |-> a, den |-> b]

\* an average that divides whatever the count
averageDaily_NoGuard(totalEarned, daysTracked) ==
    Divide(totalEarned, daysTracked)

averageDaily(totalEarned, daysTracked) ==
    IF daysTracked > 0 THEN Divide(totalEarned, daysTracked)
    ELSE Divide(0, 1)

\* Math.max and Math.min of the amounts
MaxOf(amounts) == CHOOSE a \in amounts : \A b \in amounts : b <= a
MinOf(amounts) == CHOOSE a \in amounts : \A b \in amounts : a <= b

Amounts(monthEarnings) ==
    {monthEarnings[i].amount : i \in 1..Len(monthEarnings)}

bestDay(monthEarnings) ==
    IF Len(monthEarnings) > 0 THEN MaxOf(Amounts(monthEarnings)) ELSE 0

worstDay(monthEarnings) ==
    IF Len(monthEarnings) > 0 THEN MinOf(Amounts(monthEarnings)) ELSE 0

getMonthlyStats(list, month, now) ==
    LET monthEarnings == getMonthEarnings(list, month)
        daysPassed == DaysPassed(month, now)
        totalEarned == SumAmounts(monthEarnings)
        daysTracked == Len(monthEarnings)
        daysMissed == daysPassed - daysTracked
    IN  [totalEarned |-> totalEarned,
         totalGoal |-> daysPassed * DAILY_GOAL,
         totalDebt |-> daysMissed * DAILY_GOAL,
         daysTracked |-> daysTracked,
         daysMissed |-> daysMissed,
         averageDaily |-> averageDaily(totalEarned, daysTracked),
         bestDay |-> bestDay(monthEarnings),
         worstDay |-> worstDay(monthEarnings)]

\* --------------------------------------------------------------- ghost
\* last: what the last handler was called with and the state it started from
\*
\* a call of addEarning that recorded the entry: the text typed and its
\* parsed amount, the date it was for, the clock, the list and the savings
\* it started from, the debt payments it created, and whether it repeated a
\* call that had just failed on the write
Call(text, amountNum, synth) ==
    [op |-> "add", text |-> text, amountNum |-> amountNum, ok |-> TRUE,
     date |-> selectedDate, now |-> today,
     pre |-> earnings, preSavings |-> savings, newEntries |-> synth,
     retry |-> last.op = "add" /\ alert = "Error" /\ last.text = text]

\* a call of addEarning that recorded nothing.  When the call is turned
\* down for an entry on the same date the amount has no part in the outcome
\* and is left out (0).
NoCall(text, amountNum, exists) ==
    [op |-> "add",
     text |-> IF exists THEN [kind |-> "num", val |-> 0] ELSE text,
     amountNum |-> IF exists THEN [nan |-> FALSE, num |-> 0] ELSE amountNum,
     ok |-> FALSE, date |-> selectedDate, now |-> today,
     pre |-> << >>, preSavings |-> savings, newEntries |-> << >>,
     retry |-> FALSE]

\* any other handler: deleteEarning ("delete") or one of the rest ("other")
Other(op, ok) ==
    [op |-> op, text |-> [kind |-> "junk", val |-> 0],
     amountNum |-> [nan |-> TRUE, num |-> 0], ok |-> ok,
     date |-> 0, now |-> 0, pre |-> << >>, preSavings |-> 0,
     newEntries |-> << >>, retry |-> FALSE]

\* ----------------------------------------------------------- addEarning
\* an entry that keeps the goal's worth and gives the surplus away
NewEarning_Capped(amountNum) ==
    [id |-> nextId, date |-> selectedDate,
     amount |-> Min(amountNum.num, DAILY_GOAL),
     goal |-> DAILY_GOAL, notes |-> ""]

NewEarning(amountNum) ==
    [id |-> nextId, date |-> selectedDate, amount |-> amountNum.num,
     goal |-> DAILY_GOAL, notes |-> ""]

\* a handler that never hands a surplus on
HasSurplus_Never(amountNum) == FALSE

HasSurplus(amountNum) == amountNum.num > DAILY_GOAL

\* a handler that hands the whole amount to applyDebtPayment, whatever
\* the goal
UpdatedEarnings_WholeAmount(amountNum) ==
    applyDebtPayment(earnings \o <<NewEarning(amountNum)>>,
                     amountNum.num, today, nextId + 1, selectedDate)

UpdatedEarnings(amountNum) ==
    IF HasSurplus(amountNum)
    THEN applyDebtPayment(earnings \o <<NewEarning(amountNum)>>,
                          amountNum.num - DAILY_GOAL, today, nextId + 1,
                          selectedDate)
    ELSE earnings \o <<NewEarning(amountNum)>>

\* no test for an entry on the same date
Exists_Never == FALSE

Exists == HasEntry(earnings, selectedDate)

\* a save in two writes, the entry first and the debt payments second, of
\* which a failure loses the second only
saveEarnings_TwoWrites(newEarnings, writeOK) ==
    IF writeOK THEN stringify(newEarnings)
    ELSE stringify(SelectSeq(newEarnings,
            LAMBDA e : e.notes = "" \/ \E i \in 1..Len(stored) :
                                        stored[i].id = e.id))

\* what AsyncStorage holds under STORAGE_KEY after saveEarnings(newEarnings):
\* setItem replaces the item as a whole, or throws and leaves it as it was
saveEarnings(newEarnings, writeOK) ==
    IF writeOK THEN stringify(newEarnings) ELSE stored

\* a catch block that swallows the error
FailureAlert_Silent == "none"

\* the alert of the catch block
FailureAlert == "Error"

\* a handler that sets the list before it awaits the write
setEarnings_Optimistic(newEarnings, writeOK) == newEarnings

\* the list in memory after "await saveEarnings(x); setEarnings(x)": a write
\* that throws skips the setEarnings call
setEarnings(newEarnings, writeOK) ==
    IF writeOK THEN newEarnings ELSE earnings

\* a handler that credits the difference between amount and goal to savings
savingsAfterAdd_Credit(amountNum) == savings + amountNum.num - DAILY_GOAL

\* the savings after addEarning: the handler has no statement that writes
\* a savings balance
savingsAfterAdd(amountNum) == savings

\* writeOK is the outcome of the write; a call that makes no write is
\* taken with writeOK only
AddEarning(text, writeOK) ==
    LET amountNum == parseFloat(text)
        updated == UpdatedEarnings(amountNum)
        sorted == SortDesc(updated)
        synth == SubSeq(updated, Len(earnings) + 2, Len(updated))
    IN  IF InvalidAmount(amountNum)
        THEN /\ writeOK
             /\ alert' = "Invalid Amount"
             /\ last' = NoCall(text, amountNum, FALSE)
             /\ UNCHANGED <<earnings, stored, hasStored, savings,
                            selectedDate, currentMonth, today, nextId>>
             /\ UNCHANGED appVars
        ELSE IF Exists
        THEN /\ writeOK
             /\ alert' = "Entry Exists"
             /\ last' = NoCall(text, amountNum, TRUE)
             /\ UNCHANGED <<earnings, stored, hasStored, savings,
                            selectedDate, currentMonth, today, nextId>>
             /\ UNCHANGED appVars
        ELSE /\ nextId + Len(synth) <= MaxId
             /\ stored' = saveEarnings(sorted, writeOK)
             /\ earnings' = setEarnings(sorted, writeOK)
             /\ IF writeOK
                THEN /\ hasStored' = TRUE
                     /\ savings' = savingsAfterAdd(amountNum)
                     /\ selectedDate' = today
                     /\ alert' = IF HasSurplus(amountNum)
                                 THEN "Success: surplus applied to debt"
                                 ELSE "Success"
                     /\ nextId' = nextId + 1 + Len(synth)
                     /\ last' = Call(text, amountNum, synth)
                ELSE /\ alert' = FailureAlert
                     /\ last' = NoCall(text, amountNum, FALSE)
                     /\ UNCHANGED <<hasStored, savings, selectedDate,
                                    nextId>>
             /\ UNCHANGED <<currentMonth, today>>
             /\ UNCHANGED appVars

\* --------------------------------------------------------- getDayStatus
\* a status that asks for more than the goal
getDayStatus_Strict(earning) ==
    IF earning = << >> THEN "debt"
    ELSE IF earning[1].amount > earning[1].goal THEN "met"
    ELSE "partial"

\* the entry of a day is absent (<< >>) or present (<<e>>)
getDayStatus(earning) ==
    IF earning = << >> THEN "debt"
    ELSE IF earning[1].amount >= earning[1].goal THEN "met"
    ELSE "partial"

\* -------------------------------------------------------- deleteEarning
\* the rows of the days list: each day of the month on display, up to today
\* in the running month, with the first entry found for it
\* a list of every day of the month, come or not
getMonthDays_WholeMonth(list, month, now) ==
    LET monthEarnings == getMonthEarnings(list, month)
    IN  [day \in 1..DaysInMonth(month) |->
            LET date == month * MonthLen + day
                found == SelectSeq(monthEarnings, LAMBDA e : e.date = date)
            IN  IF found = << >> THEN << >> ELSE <<Head(found)>>]

getMonthDays(list, month, now) ==
    LET monthEarnings == getMonthEarnings(list, month)
    IN  [day \in 1..DaysPassed(month, now) |->
            LET date == month * MonthLen + day
                found == SelectSeq(monthEarnings, LAMBDA e : e.date = date)
            IN  IF found = << >> THEN << >> ELSE <<Head(found)>>]

ShownIds ==
    LET rows == getMonthDays(earnings, currentMonth, today)
    IN  {rows[day][1].id : day \in {x \in DOMAIN rows : rows[x] # << >>}}

\* a delete that also takes back the debt payments, to redistribute them
updatedEarnings_Cascade(list, id) ==
    SelectSeq(list, LAMBDA e : e.id # id /\ e.notes = "")

\* earnings.filter(e => e.id !== id)
updatedEarnings(list, id) == SelectSeq(list, LAMBDA e : e.id # id)

DeleteEarning(id, confirm, writeOK) ==
    LET updated == updatedEarnings(earnings, id)
    IN  /\ id \in ShownIds
        /\ IF ~confirm
           THEN /\ writeOK
                /\ alert' = "Delete Entry"
                /\ last' = Other("delete", FALSE)
                /\ UNCHANGED <<earnings, stored, hasStored>>
           ELSE /\ stored' = saveEarnings(updated, writeOK)
                /\ earnings' = setEarnings(updated, writeOK)
                /\ IF writeOK
                   THEN /\ hasStored' = TRUE
                        /\ alert' = "Success"
                        /\ last' = Other("delete", TRUE)
                   ELSE /\ alert' = FailureAlert
                        /\ last' = Other("delete", FALSE)
                        /\ UNCHANGED hasStored
        /\ UNCHANGED <<savings, selectedDate, currentMonth, today, nextId>>
        /\ UNCHANGED appVars

\* --------------------------------------------------------- loadEarnings
\* the stored text is written by saveEarnings, or by whatever else reaches
\* the storage.  Two elements that saveEarnings does not write are modelled:
\* a JSON null, written as a record of the same fields with the note "null",
\* and a record whose date string is no date, which new Date() turns into
\* an Invalid Date, written as day InvalidDate
InvalidDate == 0

NullElement ==
    [id |-> 0, date |-> toISOString(InvalidDate), amount |-> 0, goal |-> 0,
     notes |-> "null"]

\* parsed.map(e => ({...e, date: new Date(e.date), ...})) throws a TypeError
\* on an element that is null (e.date of null)
MapThrows(parsed) == \E i \in 1..Len(parsed) : parsed[i] = NullElement

LoadEarnings(readOK) ==
    /\ IF readOK /\ ~(hasStored /\ MapThrows(stored))
       THEN /\ earnings' = IF hasStored THEN earningsWithDates(stored)
                           ELSE earnings
            /\ alert' = "none"
       ELSE /\ alert' = "Error"
            /\ earnings' = earnings
    /\ last' = Other("other", TRUE)
    /\ UNCHANGED <<stored, hasStored, savings, selectedDate, currentMonth,
                   today, nextId>>
    /\ UNCHANGED appVars

\* the screen is created anew (the app is started again): every useState
\* takes its initial value, then the focus effect loads the stored list
Mount(readOK) ==
    /\ earnings' = IF readOK /\ hasStored /\ ~MapThrows(stored)
                   THEN earningsWithDates(stored)
                   ELSE << >>
    /\ alert' = IF readOK /\ ~(hasStored /\ MapThrows(stored))
                THEN "none" ELSE "Error"
    /\ selectedDate' = today
    /\ currentMonth' = MonthOf(today)
    /\ last' = Other("other", TRUE)
    /\ UNCHANGED <<stored, hasStored, savings, today, nextId>>
    /\ UNCHANGED appVars

\* ---------------------------------------------------------- changeMonth
ChangeMonth(direction) ==
    LET newMonth == IF direction = "prev" THEN currentMonth - 1
                    ELSE currentMonth + 1
    IN  /\ newMonth \in Months
        /\ currentMonth' = newMonth
        /\ alert' = "none"
        /\ last' = Other("other", TRUE)
        /\ UNCHANGED <<earnings, stored, hasStored, savings, selectedDate,
                       today, nextId>>
        /\ UNCHANGED appVars

\* ------------------------------------------------------------ the clock
Midnight ==
    /\ today < LastDay
    /\ today' = today + 1
    /\ alert' = "none"
    /\ last' = Other("other", TRUE)
    /\ UNCHANGED <<earnings, stored, hasStored, savings, selectedDate,
                   currentMonth, nextId>>
    /\ UNCHANGED appVars

\* =================================================================
\* The rest of the app: onboarding, the task list and the project detail
\* screen, over StorageService (src/services/validation-service.ts)
\* =================================================================
\* A project is modelled by its id, its taskCount and, where an object has
\* one, its subscriptions; a task by its id, title, description and
\* projectId.  The name, description and status of a stored project are
\* non-empty strings that validateProjectObject accepts and that no handler
\* modelled here changes; they and the dates are not part of the record.
ProjectIds == {"p1", "p2"}
NoProjectId == "none"
NoProject == [id |-> NoProjectId]

\* --------------------------------------------------------- sanitizeProject
\* the object literal sanitizeProject returns: id, name, description, status,
\* createdAt, updatedAt, color, tags, completedAt, taskCount
\* (project.taskCount || 0), totalPrice.  It has no subscriptions property
sanitizeProject(p) ==
    [id |-> p.id,
     taskCount |-> IF "taskCount" \in DOMAIN p THEN p.taskCount ELSE 0]

\* project.subscriptions || []
subscriptionsOf(p) ==
    IF "subscriptions" \in DOMAIN p THEN p.subscriptions ELSE << >>

\* ------------------------------------------------------------- getProjects
\* every stored project is parsed, validated and pushed through
\* sanitizeProject
getProjects ==
    [i \in 1..Len(storedProjects) |-> sanitizeProject(storedProjects[i])]

\* Array.findIndex, with 0 for "not found" (-1 in the source)
findIndex(list, pid) ==
    IF \E i \in 1..Len(list) : list[i].id = pid
    THEN CHOOSE i \in 1..Len(list) : list[i].id = pid
    ELSE 0

\* projects.find(p => p.id === projectId)
foundProject(list, pid) ==
    IF findIndex(list, pid) = 0 THEN NoProject
    ELSE list[findIndex(list, pid)]

\* ------------------------------------------------------------ saveProjects
\* the item under STORAGE_KEYS.PROJECTS after saveProjects(list): every
\* project is pushed through sanitizeProject and the array is written as a
\* whole, or setItem throws and the item stays as it was
saveProjects(list, writeOK) ==
    IF writeOK THEN [i \in 1..Len(list) |-> sanitizeProject(list[i])]
    ELSE storedProjects

\* ----------------------------------------------------------- updateProject
\* updateProject throws when the project is not stored or the write fails
updateProjectThrows(pid, writeOK) ==
    findIndex(getProjects, pid) = 0 \/ ~writeOK

\* the item under STORAGE_KEYS.PROJECTS after updateProject(pid, updates):
\* {...existingProjects[projectIndex], ...updates} is sanitized, put in
\* place of the existing project and the array is saved
updateProject(pid, updates, writeOK) ==
    LET existingProjects == getProjects
        projectIndex == findIndex(existingProjects, pid)
        updatedProject == updates @@ existingProjects[projectIndex]
    IN  IF projectIndex = 0 THEN storedProjects
        ELSE saveProjects([existingProjects EXCEPT
                              ![projectIndex] = sanitizeProject(updatedProject)],
                          writeOK)

\* ------------------------------------------------------- getTasksByProject
getTasksByProject(allTasks, pid) ==
    SelectSeq(allTasks, LAMBDA task : task.projectId = pid)

\* ------------------------------------------------- updateProjectTaskCount
\* tasks.length of the tasks of the project
taskCountOf(allTasks, pid) == Len(getTasksByProject(allTasks, pid))

\* the item under STORAGE_KEYS.PROJECTS after updateProjectTaskCount(pid)
\* over the stored tasks allTasks; an error of updateProject is caught and
\* only logged, the item staying as it was
updateProjectTaskCount(allTasks, pid, writeOK) ==
    updateProject(pid, [taskCount |-> taskCountOf(allTasks, pid)], writeOK)

\* ------------------------------------------------------ validateTaskObject
\* id, title, description and status must be non-empty strings; the id and
\* the status of a new task always are
validateTaskObject(task) == task.title # "" /\ task.description # ""

\* the ids of a list of records
IdsOf(list) == {list[i].id : i \in 1..Len(list)}

\* a call of a handler of these screens, for the variable last
AppCall(op, ok) == Other(op, ok)

\* the variables of the project screens that a handler of the onboarding
\* leaves alone, and the other way round
projectVars == <<storedProjects, storedTasks, projectId, project>>
onboardingVars == <<onboardingCompleted, effectPending>>

\* ------------------------------------------ the app is started (index.tsx)
\* the router shows the task list, whose mount effect is still to run
Launch ==
    /\ route' = "/(tabs)"
    /\ effectPending' = TRUE
    /\ projectId' = NoProjectId
    /\ project' = NoProject
    /\ alert' = "none"
    /\ last' = AppCall("launch", TRUE)
    /\ UNCHANGED <<storedProjects, storedTasks, onboardingCompleted, nextId>>
    /\ UNCHANGED earningsVars

\* --------------------------------------------------- getOnboardingCompleted
\* value === 'true'; a read that throws is caught and gives false
getOnboardingCompleted(readOK) == readOK /\ onboardingCompleted = "true"

\* ---------------------------------------------------- checkOnboardingStatus
\* the mount effect of the task list
CheckOnboardingStatus(readOK) ==
    /\ route = "/(tabs)"
    /\ effectPending
    /\ effectPending' = FALSE
    /\ route' = IF getOnboardingCompleted(readOK) THEN route
                ELSE "/onboarding"
    /\ alert' = "none"
    /\ last' = AppCall("checkOnboardingStatus", readOK)
    /\ UNCHANGED <<projectVars, onboardingCompleted, nextId>>
    /\ UNCHANGED earningsVars

\* ------------------------------------------------------ completeOnboarding
\* router.replace('/(tabs)') in the try block and in the catch block
routeAfterOnboarding(writeOK) == "/(tabs)"

\* the last step's button, or the skip button (handleSkipOnboarding):
\* setOnboardingCompleted(true) writes 'true' or throws; the task list is
\* mounted anew in place of the onboarding screen
CompleteOnboarding(skip, writeOK) ==
    /\ route = "/onboarding"
    /\ onboardingCompleted' = IF writeOK THEN "true" ELSE onboardingCompleted
    /\ route' = routeAfterOnboarding(writeOK)
    /\ effectPending' = (route' = "/(tabs)")
    /\ alert' = "none"
    /\ last' = AppCall(IF skip THEN "handleSkipOnboarding"
                       ELSE "completeOnboarding", writeOK)
    /\ UNCHANGED <<projectVars, nextId>>
    /\ UNCHANGED earningsVars

\* --------------------------------------- the project detail screen is opened
\* router.push('/project-detail', {id}) from the list of projects, then the
\* focus effect runs loadProjectData
OpenProject(pid) ==
    /\ route = "/(tabs)"
    /\ ~effectPending
    /\ pid \in IdsOf(getProjects)
    /\ route' = "/project-detail"
    /\ projectId' = pid
    /\ project' = foundProject(getProjects, pid)
    /\ alert' = "none"
    /\ last' = AppCall("loadProjectData", TRUE)
    /\ UNCHANGED <<storedProjects, storedTasks, onboardingVars, nextId>>
    /\ UNCHANGED earningsVars

\* router.back() of the back button
Back ==
    /\ route = "/project-detail"
    /\ route' = "/(tabs)"
    /\ projectId' = NoProjectId
    /\ project' = NoProject
    /\ alert' = "none"
    /\ last' = AppCall("back", TRUE)
    /\ UNCHANGED <<storedProjects, storedTasks, onboardingVars, nextId>>
    /\ UNCHANGED earningsVars

\* ------------------------------------------------ addSubscriptionToProject
\* subName is the name typed; datesOK says that subEndDate > subStartDate.
\* A call that makes no write is taken with writeOK only
AddSubscriptionToProject(subName, datesOK, writeOK) ==
    LET newSubscription == [id |-> nextId, name |-> subName]
        updatedProject ==
            [subscriptions |->
                Append(subscriptionsOf(project), newSubscription)] @@ project
    IN  /\ route = "/project-detail"
        /\ IF subName = "" \/ ~datesOK
           THEN /\ writeOK
                /\ alert' = "Validation Error"
                /\ last' = AppCall("addSubscriptionToProject", FALSE)
                /\ UNCHANGED <<storedProjects, project, nextId>>
           ELSE /\ nextId <= MaxId
                /\ nextId' = nextId + 1
                /\ storedProjects' =
                        updateProject(projectId, updatedProject, writeOK)
                /\ IF updateProjectThrows(projectId, writeOK)
                   THEN /\ alert' = "Error"
                        /\ last' = AppCall("addSubscriptionToProject", FALSE)
                        /\ UNCHANGED project
                   ELSE /\ alert' = "Success: Subscription added!"
                        /\ last' = AppCall("addSubscriptionToProject", TRUE)
                        /\ project' = foundProject(
                              [i \in 1..Len(storedProjects') |->
                                  sanitizeProject(storedProjects'[i])],
                              projectId)
        /\ UNCHANGED <<storedTasks, projectId, route, onboardingVars>>
        /\ UNCHANGED earningsVars

\* ------------------------------------------------------ deleteSubscription
\* the delete button of a subscription that the screen lists
DeleteSubscription(subId, confirm, writeOK) ==
    LET updatedProject ==
            [subscriptions |->
                SelectSeq(subscriptionsOf(project),
                          LAMBDA s : s.id # subId)] @@ project
    IN  /\ route = "/project-detail"
        /\ subId \in IdsOf(subscriptionsOf(project))
        /\ IF ~confirm
           THEN /\ writeOK
                /\ alert' = "Delete Subscription"
                /\ last' = AppCall("deleteSubscription", FALSE)
                /\ UNCHANGED <<storedProjects, project>>
           ELSE /\ storedProjects' =
                        updateProject(projectId, updatedProject, writeOK)
                /\ IF updateProjectThrows(projectId, writeOK)
                   THEN /\ alert' = "Error"
                        /\ last' = AppCall("deleteSubscription", FALSE)
                        /\ UNCHANGED project
                   ELSE /\ alert' = "none"
                        /\ last' = AppCall("deleteSubscription", TRUE)
                        /\ project' = foundProject(
                              [i \in 1..Len(storedProjects') |->
                                  sanitizeProject(storedProjects'[i])],
                              projectId)
        /\ UNCHANGED <<storedTasks, projectId, route, onboardingVars, nextId>>
        /\ UNCHANGED earningsVars

\* --------------------------------------------------------- addTaskToProject
\* StorageService.addTask throws on a task that validateTaskObject turns
\* down and on a write that fails; then updateProjectTaskCount, whose own
\* failure (countOK false) is swallowed, and loadProjectData
AddTaskToProject(taskTitle, taskDescription, writeOK, countOK) ==
    LET newTask == [id |-> nextId, title |-> taskTitle,
                    description |-> taskDescription,
                    projectId |-> projectId]
        updatedTasks == Append(storedTasks, newTask)
    IN  /\ route = "/project-detail"
        /\ IF taskTitle = ""
           THEN /\ writeOK /\ countOK
                /\ alert' = "Validation Error"
                /\ last' = AppCall("addTaskToProject", FALSE)
                /\ UNCHANGED <<storedProjects, storedTasks, project, nextId>>
           ELSE /\ nextId <= MaxId
                /\ nextId' = nextId + 1
                /\ IF ~validateTaskObject(newTask) \/ ~writeOK
                   THEN /\ countOK
                        /\ alert' = "Error"
                        /\ last' = AppCall("addTaskToProject", FALSE)
                        /\ UNCHANGED <<storedProjects, storedTasks, project>>
                   ELSE /\ storedTasks' = updatedTasks
                        /\ storedProjects' =
                              updateProjectTaskCount(updatedTasks, projectId,
                                                     countOK)
                        /\ project' = foundProject(
                              [i \in 1..Len(storedProjects') |->
                                  sanitizeProject(storedProjects'[i])],
                              projectId)
                        /\ alert' = "Success: Task added to project!"
                        /\ last' = AppCall("addTaskToProject", TRUE)
        /\ UNCHANGED <<projectId, route, onboardingVars>>
        /\ UNCHANGED earningsVars

\* --------------------------------- deleteTask of the project detail screen
\* StorageService.deleteTask, updateProjectTaskCount and loadProjectData
ProjectDeleteTask(taskId, confirm, writeOK, countOK) ==
    LET filteredTasks == SelectSeq(storedTasks, LAMBDA task : task.id # taskId)
    IN  /\ route = "/project-detail"
        /\ taskId \in IdsOf(getTasksByProject(storedTasks, projectId))
        /\ IF ~confirm \/ ~writeOK
           THEN /\ countOK
                /\ confirm \/ writeOK
                /\ alert' = IF confirm THEN "Error" ELSE "Delete Task"
                /\ last' = AppCall("deleteTask", FALSE)
                /\ UNCHANGED <<storedProjects, storedTasks, project>>
           ELSE /\ storedTasks' = filteredTasks
                /\ storedProjects' =
                      updateProjectTaskCount(filteredTasks, projectId, countOK)
                /\ project' = foundProject(
                      [i \in 1..Len(storedProjects') |->
                          sanitizeProject(storedProjects'[i])],
                      projectId)
                /\ alert' = "Success: Task deleted"
                /\ last' = AppCall("deleteTask", TRUE)
        /\ UNCHANGED <<projectId, route, onboardingVars, nextId>>
        /\ UNCHANGED earningsVars

\* ----------------------------------------- deleteTask of the task list
\* StorageService.deleteTask and loadTasks; nothing else is written
ListDeleteTask(taskId, confirm, writeOK) ==
    LET filteredTasks == SelectSeq(storedTasks, LAMBDA task : task.id # taskId)
    IN  /\ route = "/(tabs)"
        /\ ~effectPending
        /\ taskId \in IdsOf(storedTasks)
        /\ IF ~confirm \/ ~writeOK
           THEN /\ confirm \/ writeOK
                /\ alert' = IF confirm THEN "Delete Failed" ELSE "Delete Task"
                /\ last' = AppCall("listDeleteTask", FALSE)
                /\ UNCHANGED storedTasks
           ELSE /\ storedTasks' = filteredTasks
                /\ alert' = "none"
                /\ last' = AppCall("listDeleteTask", TRUE)
        /\ UNCHANGED <<storedProjects, projectId, project, route,
                       onboardingVars, nextId>>
        /\ UNCHANGED earningsVars

\* ------------------------------------------------ the app outside these
\* the earnings screen is used by a user who has completed the onboarding
\* and has created no project and no task
AppAtRest ==
    /\ storedProjects = << >>
    /\ storedTasks = << >>
    /\ projectId = NoProjectId
    /\ project = NoProject
    /\ route = "/(tabs)"
    /\ onboardingCompleted = "true"
    /\ effectPending = FALSE

\* ------------------------------------------------------- specification
Init ==
    /\ today = FirstDay
    /\ earnings = << >>
    /\ stored = << >>
    /\ hasStored = FALSE
    /\ savings = 0
    /\ selectedDate = today
    /\ currentMonth = MonthOf(today)
    /\ nextId = 1
    /\ alert = "none"
    /\ last = Other("other", TRUE)
    /\ AppAtRest

Next ==
    \/ \E text \in AmountTexts, writeOK \in BOOLEAN : AddEarning(text, writeOK)
    \/ \E id \in 1..MaxId, confirm \in BOOLEAN, writeOK \in BOOLEAN :
            DeleteEarning(id, confirm, writeOK)
    \/ \E readOK \in BOOLEAN : LoadEarnings(readOK)
    \/ \E readOK \in BOOLEAN : Mount(readOK)
    \/ \E direction \in {"prev", "next"} : ChangeMonth(direction)
    \/ Midnight

Spec == Init /\ [][Next]_vars

TypeOK ==
    /\ today \in Days
    /\ selectedDate \in Days
    /\ currentMonth \in Months
    /\ savings \in Int
    /\ nextId \in 1..(MaxId + 1)

\* ---------------------------------------------------------- goal streak
\* a record of the list dated d has amount >= goal
MetOn(list, d) ==
    \E i \in 1..Len(list) :
        list[i].date = d /\ list[i].amount >= list[i].goal

\* the walk backward from day d, one day at a time: it counts the days met
\* and stops, without counting it, at the first day that is not met or that
\* is before the first day
RECURSIVE StreakFrom(_, _)
StreakFrom(list, d) ==
    IF d < 1 \/ ~MetOn(list, d) THEN 0
    ELSE 1 + StreakFrom(list, d - 1)

\* a streak that starts its walk at yesterday
computeGoalStreak_FromYesterday(list, now) == StreakFrom(list, now - 1)

\* the goal streak as of day now
computeGoalStreak(list, now) == StreakFrom(list, now)

\* ------------------------------------------------ the four-day scenario
\* the screen opened on day 4 of the first month on a stored list of one
\* entry, the goal exactly, entered on day 1
ScenarioList ==
    <<[id |-> 0, date |-> 1, amount |-> DAILY_GOAL, goal |-> DAILY_GOAL,
       notes |-> ""]>>

ScenarioInit ==
    /\ today = 4
    /\ earnings = ScenarioList
    /\ stored = stringify(ScenarioList)
    /\ hasStored = TRUE
    /\ savings = 0
    /\ selectedDate = today
    /\ currentMonth = MonthOf(today)
    /\ nextId = 1
    /\ alert = "none"
    /\ last = Other("other", TRUE)
    /\ AppAtRest

ScenarioSpec == ScenarioInit /\ [][Next]_vars

\* ------------------------------------------- loading a damaged stored list
\* the elements a stored list is drawn from: two entries as saveEarnings
\* writes them, an entry whose date string is no date, and a null
StoredElements ==
    {[id |-> 1, date |-> toISOString(1), amount |-> DAILY_GOAL,
      goal |-> DAILY_GOAL, notes |-> ""],
     [id |-> 2, date |-> toISOString(FirstDay), amount |-> AmountStep,
      goal |-> DAILY_GOAL, notes |-> ""],
     [id |-> 3, date |-> toISOString(InvalidDate), amount |-> DAILY_GOAL,
      goal |-> DAILY_GOAL, notes |-> ""],
     NullElement}

\* the stored lists of one to three distinct elements
StoredLists ==
    {list \in UNION {[1..n -> StoredElements] : n \in 1..3} :
        \A i, j \in 1..Len(list) : i # j => list[i] # list[j]}

\* the screen is created on some day over a stored list; nothing is in
\* memory yet
LoadInit ==
    /\ today \in FirstDay..LastDay
    /\ stored \in StoredLists
    /\ hasStored = TRUE
    /\ earnings = << >>
    /\ savings = 0
    /\ selectedDate = today
    /\ currentMonth = MonthOf(today)
    /\ nextId = 1
    /\ alert = "none"
    /\ last = Other("other", TRUE)
    /\ AppAtRest

\* the loads whose read of the storage succeeds: on focus, and on a new
\* start of the app
LoadNext ==
    \/ LoadEarnings(TRUE)
    \/ Mount(TRUE)

LoadSpec == LoadInit /\ [][LoadNext]_vars

\* ------------------------------------------- an entry recorded once already
\* the state after the screen was opened two days after FirstDay, with no
\* record in the list, and an entry of two goals and a half was recorded:
\* the entry and the two debt payments its surplus paid, which leave one
\* day of the month without a record.  Ids are only compared for equality;
\* the three records have the ids 1, 0 and -1
RepayEntry ==
    [id |-> 1, date |-> FirstDay + 2, amount |-> 5 * AmountStep,
     goal |-> DAILY_GOAL, notes |-> ""]

RepayInit ==
    /\ today = FirstDay + 2
    /\ earnings = SortDesc(applyDebtPayment(<<RepayEntry>>,
                                RepayEntry.amount - DAILY_GOAL, today,
                                0 - 1, today))
    /\ stored = stringify(earnings)
    /\ hasStored = TRUE
    /\ savings = 0
    /\ selectedDate = today
    /\ currentMonth = MonthOf(today)
    /\ nextId = 2
    /\ alert = "none"
    /\ last = Other("other", TRUE)
    /\ AppAtRest

RepaySpec == RepayInit /\ [][Next]_vars

\* ----------------------------------- the app from its first start onward
\* the app is started for the first time: the onboarding flag was never
\* written, the earnings screen was never opened.  Two projects have been
\* created (StorageService.addProject) and have no task yet
FirstProjects ==
    <<[id |-> "p1", taskCount |-> 0], [id |-> "p2", taskCount |-> 0]>>

AppInit ==
    /\ today = FirstDay
    /\ earnings = << >>
    /\ stored = << >>
    /\ hasStored = FALSE
    /\ savings = 0
    /\ selectedDate = today
    /\ currentMonth = MonthOf(today)
    /\ nextId = 1
    /\ alert = "none"
    /\ last = AppCall("launch", TRUE)
    /\ storedProjects = FirstProjects
    /\ storedTasks = << >>
    /\ projectId = NoProjectId
    /\ project = NoProject
    /\ route = "/(tabs)"
    /\ onboardingCompleted = "null"
    /\ effectPending = TRUE

AppNext ==
    \/ Launch
    \/ \E readOK \in BOOLEAN : CheckOnboardingStatus(readOK)
    \/ \E skip \in BOOLEAN, writeOK \in BOOLEAN :
            CompleteOnboarding(skip, writeOK)
    \/ \E pid \in ProjectIds : OpenProject(pid)
    \/ Back
    \/ \E subName \in {"", "s"}, datesOK \in BOOLEAN, writeOK \in BOOLEAN :
            AddSubscriptionToProject(subName, datesOK, writeOK)
    \/ \E taskTitle \in {"", "t"}, taskDescription \in {"", "d"},
          writeOK \in BOOLEAN, countOK \in BOOLEAN :
            AddTaskToProject(taskTitle, taskDescription, writeOK, countOK)
    \/ \E taskId \in 1..MaxId, confirm \in BOOLEAN, writeOK \in BOOLEAN,
          countOK \in BOOLEAN :
            ProjectDeleteTask(taskId, confirm, writeOK, countOK)
    \/ \E taskId \in 1..MaxId, confirm \in BOOLEAN, writeOK \in BOOLEAN :
            ListDeleteTask(taskId, confirm, writeOK)

AppSpec == AppInit /\ [][AppNext]_vars

\* =================================================================
\* Properties
\* =================================================================

\* the last handler was addEarning and it recorded the entry
Recorded == last.op = "add" /\ last.ok

\* the surplus of the entry of the last call (0 or less when there is none)
Surplus == last.amountNum.num - DAILY_GOAL

\* the days from the 1st of the month of the call through the day of the
\* call that had no record before the call, the day of the new entry apart
UnpaidDays ==
    {d \in StartOfMonth(last.now)..last.now :
        /\ d # last.date
        /\ \A i \in 1..Len(last.pre) : last.pre[i].date # d}

CeilDiv(a, b) == (a + b - 1) \div b

\* the records of a list dated d
RecordsOn(list, d) == {i \in 1..Len(list) : list[i].date = d}

\* C1: when an entry with surplus S is recorded while N days of the running
\* month are unpaid (the entry's own day apart) and 0 < S <= N * G, exactly
\* ceil(S / G) debt payments are created, each of G except possibly the
\* last, summing to S, on the earliest unpaid days in ascending order.
C1_DebtCase ==
    (Recorded /\ Surplus > 0
        /\ Surplus <= Cardinality(UnpaidDays) * DAILY_GOAL)
    => LET new == last.newEntries
       IN  /\ Len(new) = CeilDiv(Surplus, DAILY_GOAL)
           /\ SumAmounts(new) = Surplus
           /\ \A i \in 1..(Len(new) - 1) : new[i].amount = DAILY_GOAL
           /\ \A i \in 1..Len(new) :
                /\ new[i].date \in UnpaidDays
                /\ Cardinality({d \in UnpaidDays : d < new[i].date}) = i - 1
                /\ \E j \in 1..Len(earnings) : earnings[j] = new[i]

\* an entry paid two unpaid days, the second in part
C1_Witness ==
    /\ Recorded
    /\ Surplus <= Cardinality(UnpaidDays) * DAILY_GOAL
    /\ Len(last.newEntries) = 2
    /\ last.newEntries[2].amount < DAILY_GOAL

\* C2: when an entry of G + S, S > 0, is recorded while no day of the
\* running month is unpaid (the entry's own day apart), the savings balance
\* grows by exactly S and no debt payment is created.
C2_NoDebtCase ==
    (Recorded /\ Surplus > 0 /\ UnpaidDays = {})
    => /\ savings = last.preSavings + Surplus
       /\ last.newEntries = << >>

\* C3: the total debt the statistics give for the running month on the list
\* before the entry is above 0 exactly when some day from the 1st through
\* today other than the entry's own day has no record.
C3_DebtComputationsAgree ==
    Recorded
    => ((getMonthlyStats(last.pre, MonthOf(last.now), last.now).totalDebt > 0)
        <=> (UnpaidDays # {}))

\* C3 as amended: that total debt is above 0 exactly when some day from the
\* 1st through today, the entry's own day included, has no record; it is
\* above 0 whenever an unpaid day other than the entry's exists.
C3_DebtCountsOwnDay ==
    Recorded
    => LET debt == getMonthlyStats(last.pre, MonthOf(last.now),
                                   last.now).totalDebt
           recordless == {d \in StartOfMonth(last.now)..last.now :
                            RecordsOn(last.pre, d) = {}}
       IN  /\ (debt > 0) <=> (recordless # {})
           /\ debt = Cardinality(recordless) * DAILY_GOAL
           /\ (UnpaidDays # {}) => debt > 0

\* an entry recorded with a debt above 0 and no unpaid day but its own
C3_Witness ==
    /\ Recorded
    /\ UnpaidDays = {}
    /\ getMonthlyStats(last.pre, MonthOf(last.now), last.now).totalDebt > 0

\* C4: when the surplus S exceeds N * G for the N unpaid days, each of them
\* gets exactly one debt payment of G and the rest of the surplus is in no
\* record and not in the savings balance.
C4_SurplusBeyondDebt ==
    (Recorded /\ Surplus > Cardinality(UnpaidDays) * DAILY_GOAL)
    => LET new == last.newEntries
       IN  /\ Len(new) = Cardinality(UnpaidDays)
           /\ \A d \in UnpaidDays :
                /\ Cardinality(RecordsOn(new, d)) = 1
                /\ Cardinality(RecordsOn(earnings, d)) = 1
                /\ \A i \in RecordsOn(new, d) : new[i].amount = DAILY_GOAL
           /\ savings = last.preSavings
           /\ SumAmounts(earnings)
                = SumAmounts(last.pre) + last.amountNum.num
                  + Cardinality(UnpaidDays) * DAILY_GOAL

\* an entry whose surplus exceeded the debt of the one unpaid day or more
C4_Witness ==
    /\ Recorded
    /\ UnpaidDays # {}
    /\ Surplus > Cardinality(UnpaidDays) * DAILY_GOAL

\* C5: no two records of the earnings list, in memory or stored, fall on
\* the same day.
C5_OneRecordPerDay ==
    /\ \A i, j \in 1..Len(earnings) :
            earnings[i].date = earnings[j].date => i = j
    /\ \A i, j \in 1..Len(stored) :
            stored[i].date = stored[j].date => i = j

\* an entry with a debt payment is stored and a second entry for a day that
\* has a record was turned down
C5_Witness ==
    /\ Len(stored) >= 2
    /\ Len(earnings) >= 2
    /\ last.op = "add"
    /\ alert = "Entry Exists"

\* the amount typed does not parse to a number, or to one below 0, or the
\* date of the entry has a record
MustReject(text) ==
    \/ text.kind # "num"
    \/ text.val < 0
    \/ RecordsOn(earnings, selectedDate) # {}

\* C6: addEarning with a non-numeric or negative amount, or for a day that
\* has a record, changes neither the list in memory, nor the stored list,
\* nor the savings balance, and creates no debt payment.
C6_RejectedBeforeMutation ==
    [][(last'.op = "add" /\ MustReject(last'.text))
        => /\ UNCHANGED <<earnings, stored, hasStored, savings>>
           /\ ~last'.ok
           /\ last'.newEntries = << >>
           /\ alert' \in {"Invalid Amount", "Entry Exists"}]_vars

\* a negative amount was turned down with records in the list
C6_Witness ==
    /\ last.op = "add"
    /\ last.text.kind = "num" /\ last.text.val < 0
    /\ alert = "Invalid Amount"
    /\ Len(earnings) >= 1

\* C7: addEarning with an amount of 0 or less is rejected and adds no record.
C7_NonPositiveRejected ==
    (last.op = "add" /\ last.text.kind = "num" /\ last.text.val <= 0)
    => ~last.ok

\* C7 as amended: an amount below 0 is rejected; an amount of exactly 0 is
\* accepted when the day has no record and the write succeeds, and the day
\* then has a record of amount 0, which makes it a partial day.
C7_NegativeRejected ==
    /\ (last.op = "add" /\ last.text.kind = "num" /\ last.text.val < 0)
        => (~last.ok /\ alert = "Invalid Amount")
    /\ (last.op = "add" /\ last.text.kind = "num" /\ last.text.val = 0
            /\ alert \notin {"Entry Exists", FailureAlert})
        => /\ last.ok
           /\ \E i \in 1..Len(earnings) :
                /\ earnings[i].date = last.date
                /\ earnings[i].amount = 0
                /\ getDayStatus(<<earnings[i]>>) = "partial"

\* an amount of 0 was recorded
C7_Witness ==
    /\ Recorded
    /\ last.text.val = 0
    /\ \E i \in 1..Len(earnings) :
            earnings[i].date = last.date /\ earnings[i].amount = 0

\* C8: every debt payment an entry creates is dated before the entry and on
\* a day that had no record before the call.
C8_PaymentsBeforeEntry ==
    Recorded
    => \A i \in 1..Len(last.newEntries) :
        /\ last.newEntries[i].date < last.date
        /\ RecordsOn(last.pre, last.newEntries[i].date) = {}

\* the list addEarning stores for an entry: the list in memory, the entry
\* with its full amount, and a debt payment on each unpaid day the surplus
\* reaches
WholeEffect(before, after, text, date, now) ==
    LET unpaid == {d \in StartOfMonth(now)..now :
                     d # date /\ RecordsOn(before, d) = {}}
        surplus == IF text.val > DAILY_GOAL THEN text.val - DAILY_GOAL ELSE 0
        paid == Min(surplus, Cardinality(unpaid) * DAILY_GOAL)
    IN  /\ Len(after) = Len(before) + 1 + CeilDiv(paid, DAILY_GOAL)
        /\ SumAmounts(after) = SumAmounts(before) + text.val + paid
        /\ \E i \in 1..Len(after) :
                after[i].date = toISOString(date) /\ after[i].amount = text.val
        /\ \A i \in 1..Len(before) : \E j \in 1..Len(after) :
                after[j] = [before[i] EXCEPT !.date = toISOString(before[i].date)]

\* C9: a call of addEarning leaves the stored list and the savings balance
\* either as they were or with all the effects of the call.
C9_AllOrNothing ==
    [][last'.op = "add"
        => \/ UNCHANGED <<stored, hasStored, savings>>
           \/ /\ hasStored'
              /\ savings' = savings
              /\ WholeEffect(earnings, stored', last'.text, selectedDate,
                             today)]_vars

\* a write failed for an entry that would have paid debt, with a list stored
C9_Witness ==
    /\ last.op = "add"
    /\ ~last.ok
    /\ alert = FailureAlert
    /\ last.amountNum.num > DAILY_GOAL
    /\ Len(stored) >= 1

\* the surplus of the entries the stored list holds
RECURSIVE StoredSurplus(_)
StoredSurplus(list) ==
    IF list = << >> THEN 0
    ELSE (IF Head(list).notes = "" /\ Head(list).amount > Head(list).goal
          THEN Head(list).amount - Head(list).goal ELSE 0)
         + StoredSurplus(Tail(list))

\* C10: a failed write of addEarning is shown to the user and leaves the
\* lists and the savings balance as they were, so that a retry applies the
\* surplus once; the debt payments of one entry never exceed its surplus and
\* the savings balance never exceeds the surplus of the recorded entries.
C10_NoOvercount ==
    [][last'.op = "add"
        => /\ (~last'.ok /\ ~MustReject(last'.text))
                => /\ alert' = "Error"
                   /\ UNCHANGED <<earnings, stored, hasStored, savings>>
           /\ last'.ok
                => /\ SumAmounts(last'.newEntries)
                        <= (IF last'.amountNum.num > DAILY_GOAL
                            THEN last'.amountNum.num - DAILY_GOAL ELSE 0)
                   /\ \A i \in 1..Len(last'.newEntries) :
                        RecordsOn(earnings, last'.newEntries[i].date) = {}
           /\ savings' <= StoredSurplus(stored')]_vars

\* a write that failed was followed by a retry that recorded the entry and
\* its debt payment
C10_Witness ==
    /\ Recorded
    /\ last.retry
    /\ Len(last.newEntries) >= 1
    /\ SumAmounts(last.newEntries) = Surplus

\* the list in memory is the list the storage holds
InMemoryIsStored == earnings = earningsWithDates(stored)

\* C11 as stated: after a failed write of addEarning or deleteEarning the
\* list in memory is the last list persisted.
C11_EqualToPersisted ==
    (last.op \in {"add", "delete"} /\ ~last.ok /\ alert = "Error")
        => InMemoryIsStored

\* C11: a failed write of addEarning or deleteEarning is shown to the user
\* and is not repeated: the list in memory and the stored list are left as
\* they were. The two lists are equal until a load at mount fails, which
\* leaves the list in memory empty; no other step makes them differ.
C11_FailedWriteKeepsLists ==
    [][/\ (last'.op = "add" /\ ~last'.ok /\ ~MustReject(last'.text))
            => /\ alert' = "Error"
               /\ UNCHANGED <<earnings, stored, hasStored, nextId>>
       /\ (last'.op = "delete" /\ ~last'.ok)
            => /\ alert' \in {"Delete Entry", "Error"}
               /\ UNCHANGED <<earnings, stored, hasStored, nextId>>
       /\ (InMemoryIsStored /\ ~InMemoryIsStored')
            => /\ last'.op = "other"
               /\ alert' = "Error"
               /\ earnings' = << >>
               /\ stored' = stored]_vars

\* a write of deleteEarning failed with a list in memory, equal to the
\* stored one
C11_Witness ==
    /\ last.op = "delete"
    /\ ~last.ok
    /\ alert = "Error"
    /\ Len(earnings) >= 1
    /\ InMemoryIsStored

\* the records of a list that the user entered on day d (the debt payments
\* carry a note)
OrganicOn(list, d) ==
    {i \in 1..Len(list) : list[i].date = d /\ list[i].notes = ""}

\* C12: after every recorded entry, the list in memory and the stored list
\* hold one record for the entry's day, with the amount as entered and the
\* goal DAILY_GOAL, whatever part of its surplus went to debt payments.
C12_OrganicKeepsFullAmount ==
    Recorded
        => /\ Cardinality(OrganicOn(earnings, last.date)) = 1
           /\ \A i \in OrganicOn(earnings, last.date) :
                /\ earnings[i].amount = last.text.val
                /\ earnings[i].goal = DAILY_GOAL
           /\ Cardinality(OrganicOn(earningsWithDates(stored), last.date)) = 1
           /\ \A i \in OrganicOn(earningsWithDates(stored), last.date) :
                /\ stored[i].amount = last.text.val
                /\ stored[i].goal = DAILY_GOAL

\* an entry was recorded whose surplus went to debt payments in full
C12_Witness ==
    /\ Recorded
    /\ Surplus > 0
    /\ SumAmounts(last.newEntries) = Surplus
    /\ \E i \in OrganicOn(earnings, last.date) :
            earnings[i].amount = DAILY_GOAL + Surplus

\* a list without its i-th record
WithoutIndex(list, i) ==
    SubSeq(list, 1, i - 1) \o SubSeq(list, i + 1, Len(list))

\* C13: a confirmed deleteEarning that persists removes the one record of
\* the id and nothing else: the other records, debt payments included, stay
\* as they were and in their order, no record is created, the stored list
\* becomes the list in memory and the savings balance is unchanged.
C13_DeleteRemovesOnlyId ==
    [][(last'.op = "delete" /\ last'.ok)
        => /\ \E i \in 1..Len(earnings) :
                /\ earnings' = WithoutIndex(earnings, i)
                /\ \A j \in 1..Len(earnings') :
                        earnings'[j].id # earnings[i].id
           /\ earningsWithDates(stored') = earnings'
           /\ savings' = savings
           /\ nextId' = nextId]_vars

\* an entry was deleted and the debt payment it had paid for is still in
\* the list, with no entry of the user left
C13_Witness ==
    /\ last.op = "delete"
    /\ last.ok
    /\ Len(earnings) >= 1
    /\ \A i \in 1..Len(earnings) : earnings[i].notes # ""

\* the months the statistics are asked for: the months of the clock's run
\* and the month after it
TargetMonths == 0..((LastDay - 1) \div MonthLen + 1)

\* C14: for every target month, the statistics of the list in memory have
\* totalDebt = daysMissed * DAILY_GOAL and daysMissed = daysPassed -
\* daysTracked >= 0, daysPassed being the day of the month of today in the
\* running month and the length of the month in any other.
C14_DebtIsMissedTimesGoal ==
    \A m \in TargetMonths :
        LET stats == getMonthlyStats(earnings, m, today)
            passed == IF (today - 1) \div MonthLen = m
                      THEN today - m * MonthLen ELSE MonthLen
            tracked == Cardinality({i \in 1..Len(earnings) :
                            (earnings[i].date - 1) \div MonthLen = m})
        IN  /\ stats.daysTracked = tracked
            /\ stats.daysMissed = passed - tracked
            /\ stats.daysMissed >= 0
            /\ stats.totalDebt = stats.daysMissed * DAILY_GOAL

\* a month that is over has days with a record and days without, and the
\* running month has a record for each of its days
C14_Witness ==
    /\ MonthOf(today) >= 1
    /\ getMonthlyStats(earnings, 0, today).daysTracked >= 1
    /\ getMonthlyStats(earnings, 0, today).totalDebt >= DAILY_GOAL
    /\ getMonthlyStats(earnings, MonthOf(today), today).daysTracked >= 1
    /\ getMonthlyStats(earnings, MonthOf(today), today).totalDebt = 0

\* the days of a month that have come, today included
OccurredDays(month, now) ==
    {d \in (month * MonthLen + 1)..((month + 1) * MonthLen) : d <= now}

\* C15: in the statistics of the month on display, be it past, running or
\* to come, daysMissed and totalDebt count no day after today.
C15_NoFutureDayMissed ==
    LET stats == getMonthlyStats(earnings, currentMonth, today)
        occurred == Cardinality(OccurredDays(currentMonth, today))
    IN  /\ stats.daysMissed <= occurred
        /\ stats.totalDebt <= occurred * DAILY_GOAL

\* the status shown for a day of a month
StatusOf(month, day) ==
    getDayStatus(getMonthDays(earnings, month, today)[day])

\* C16: every day listed for a month has one status: "debt" when and only
\* when the list has no record dated that day, "met" when and only when it
\* has one with amount >= goal (amount = goal included), "partial" when and
\* only when it has one with amount < goal.
C16_StatusByRecord ==
    \A m \in Months :
        \A day \in DOMAIN getMonthDays(earnings, m, today) :
            LET on == RecordsOn(earnings, m * MonthLen + day)
                status == StatusOf(m, day)
            IN  /\ status \in {"met", "partial", "debt"}
                /\ status = "debt" <=> on = {}
                /\ status = "met"
                    <=> \E i \in on : earnings[i].amount >= earnings[i].goal
                /\ status = "partial"
                    <=> \E i \in on : earnings[i].amount < earnings[i].goal

\* the month on display lists a day met with the goal exactly, a partial
\* day and a debt day
C16_Witness ==
    \E d1, d2, d3 \in DOMAIN getMonthDays(earnings, currentMonth, today) :
        /\ StatusOf(currentMonth, d1) = "met"
        /\ \E i \in RecordsOn(earnings, currentMonth * MonthLen + d1) :
                earnings[i].amount = DAILY_GOAL
        /\ StatusOf(currentMonth, d2) = "partial"
        /\ StatusOf(currentMonth, d3) = "debt"

\* C17: a recorded entry with 0 < amount <= DAILY_GOAL adds its one record
\* to the list and nothing else: no debt payment is created, whatever days
\* are unpaid, and the savings balance is unchanged.
C17_NoSurplusNoDistribution ==
    (Recorded /\ 0 < last.text.val /\ last.text.val <= DAILY_GOAL)
        => /\ last.newEntries = << >>
           /\ Len(earnings) = Len(last.pre) + 1
           /\ \A i \in 1..Len(last.pre) :
                \E j \in 1..Len(earnings) : earnings[j] = last.pre[i]
           /\ Cardinality(OrganicOn(earnings, last.date)) = 1
           /\ savings = last.preSavings

\* an entry of the goal exactly was recorded while a day was unpaid
C17_Witness ==
    /\ Recorded
    /\ last.text.val = DAILY_GOAL
    /\ UnpaidDays # {}
    /\ Len(earnings) = Len(last.pre) + 1

\* the debt payments of a list dated before the month of day now
PaymentsBefore(list, now) ==
    {i \in 1..Len(list) :
        /\ list[i].notes # ""
        /\ (list[i].date - 1) \div MonthLen < (now - 1) \div MonthLen}

\* C18: the debt payments a recorded entry creates are dated in the month
\* of the clock and not after today; a day of an earlier month receives no
\* payment, and every record the list held, of whatever month, is in the
\* new list as it was.
C18_PaymentsInRunningMonth ==
    Recorded
        => /\ \A i \in 1..Len(last.newEntries) :
                /\ (last.newEntries[i].date - 1) \div MonthLen
                        = (last.now - 1) \div MonthLen
                /\ last.newEntries[i].date <= last.now
           /\ \A i \in PaymentsBefore(earnings, last.now) :
                \E j \in 1..Len(last.pre) : last.pre[j] = earnings[i]
           /\ \A j \in 1..Len(last.pre) :
                \E i \in 1..Len(earnings) : earnings[i] = last.pre[j]

\* an entry was recorded in the second month with more surplus than the
\* running month had unpaid days for, while a day of the first month had no
\* record: the day still has none
C18_Witness ==
    /\ Recorded
    /\ MonthOf(last.now) >= 1
    /\ Len(last.newEntries) >= 1
    /\ Surplus > SumAmounts(last.newEntries)
    /\ \E d \in 1..MonthLen : RecordsOn(earnings, d) = {}

AmountsInRange(list) ==
    \A i \in 1..Len(list) :
        /\ list[i].amount >= 0
        /\ list[i].notes # ""
            => /\ 0 < list[i].amount
               /\ list[i].amount <= DAILY_GOAL
               /\ list[i].goal = DAILY_GOAL

\* C20: in every reachable state the records of the list in memory and of
\* the stored list have amount >= 0, and the debt payments among them have
\* 0 < amount <= DAILY_GOAL and goal = DAILY_GOAL.
C20_AmountsInRange ==
    /\ AmountsInRange(earnings)
    /\ AmountsInRange(stored)

\* the list holds a debt payment of the whole goal, a debt payment of less
\* and an entry above the goal
C20_Witness ==
    /\ \E i \in 1..Len(earnings) :
            earnings[i].notes # "" /\ earnings[i].amount = DAILY_GOAL
    /\ \E i \in 1..Len(earnings) :
            earnings[i].notes # "" /\ earnings[i].amount < DAILY_GOAL
    /\ \E i \in 1..Len(earnings) :
            earnings[i].notes = "" /\ earnings[i].amount > DAILY_GOAL

\* C21: the goal streak of the list in memory as of today is 0 when and only
\* when today has no record with amount >= goal; when it is k >= 1, today
\* and the k-1 days before it each have a record with amount >= goal, and
\* the day before those k days is not met or is before the first day.
C21_StreakBoundary ==
    LET k == computeGoalStreak(earnings, today)
        met(d) == \E i \in RecordsOn(earnings, d) :
                        earnings[i].amount >= earnings[i].goal
    IN  /\ k \in 0..today
        /\ k = 0 <=> ~met(today)
        /\ \A d \in (today - k + 1)..today : met(d)
        /\ today - k >= 1 => ~met(today - k)

\* a streak of two days that a day not met stops
C21_Witness ==
    /\ computeGoalStreak(earnings, today) = 2
    /\ today >= 3
    /\ RecordsOn(earnings, today - 2) # {}
    /\ ~MetOn(earnings, today - 2)

\* the record of a list dated d, when there is exactly one
TheRecordOn(list, d) == list[CHOOSE i \in RecordsOn(list, d) : TRUE]

\* an entry of 70000 was recorded on day 4 for day 4, on the list of the
\* scenario
ScenarioRecorded ==
    /\ Recorded
    /\ last.pre = ScenarioList
    /\ last.now = 4
    /\ last.date = 4
    /\ last.text.val = 70000

\* C22: with the goal at 28000, a record of 28000 on day 1 and none on days
\* 2 and 3, an entry of 70000 recorded on day 4 leaves day 2 with 28000
\* (met), day 3 with 14000 (partial), day 4 with the entry of 70000 (met),
\* day 1 as it was, the savings balance unchanged and a goal streak of 1.
C22_Scenario ==
    ScenarioRecorded
        => /\ DAILY_GOAL = 28000
           /\ Len(earnings) = 4
           /\ \A d \in 1..4 : Cardinality(RecordsOn(earnings, d)) = 1
           /\ TheRecordOn(earnings, 1) = ScenarioList[1]
           /\ TheRecordOn(earnings, 2).amount = 28000
           /\ TheRecordOn(earnings, 2).notes # ""
           /\ StatusOf(0, 2) = "met"
           /\ TheRecordOn(earnings, 3).amount = 14000
           /\ TheRecordOn(earnings, 3).notes # ""
           /\ StatusOf(0, 3) = "partial"
           /\ TheRecordOn(earnings, 4).amount = 70000
           /\ TheRecordOn(earnings, 4).notes = ""
           /\ StatusOf(0, 4) = "met"
           /\ StatusOf(0, 1) = "met"
           /\ savings = last.preSavings
           /\ computeGoalStreak(earnings, today) = 1
           /\ earningsWithDates(stored) = earnings

\* the entry of the scenario was recorded
C22_Witness ==
    /\ ScenarioRecorded
    /\ today = 4
    /\ Len(last.newEntries) = 2

\* an element of the stored list that is a record with a date
ValidRecord(e) == e # NullElement /\ newDate(e.date) # InvalidDate

\* C23: a load whose read succeeds puts in memory every valid record of the
\* stored list and no other: an element that is no valid record is skipped
\* and does not keep the others from being loaded.
C23_BadRecordsSkipped ==
    [][earnings' = earningsWithDates(SelectSeq(stored, ValidRecord))]_vars

\* the records of the list in memory dated in month m
InMonth(m) ==
    {i \in 1..Len(earnings) : (earnings[i].date - 1) \div MonthLen = m}

\* C24: for every target month, averageDaily is 0 when the month has no
\* record and totalEarned / daysTracked otherwise; bestDay and worstDay are
\* 0 when the month has no record and otherwise the largest and the smallest
\* amount of a record of the month.
C24_AverageBestWorst ==
    \A m \in TargetMonths :
        LET stats == getMonthlyStats(earnings, m, today)
            average == stats.averageDaily
        IN  /\ stats.daysTracked = Cardinality(InMonth(m))
            /\ average.den > 0
            /\ IF InMonth(m) = {}
               THEN /\ average.num = 0
                    /\ stats.bestDay = 0
                    /\ stats.worstDay = 0
               ELSE /\ average.num * stats.daysTracked
                        = stats.totalEarned * average.den
                    /\ \E i \in InMonth(m) :
                            earnings[i].amount = stats.bestDay
                    /\ \A i \in InMonth(m) :
                            earnings[i].amount <= stats.bestDay
                    /\ \E i \in InMonth(m) :
                            earnings[i].amount = stats.worstDay
                    /\ \A i \in InMonth(m) :
                            earnings[i].amount >= stats.worstDay

\* the first month has records of different amounts with an average that is
\* no whole number, and the second month has none
C24_Witness ==
    LET stats == getMonthlyStats(earnings, 0, today)
    IN  /\ stats.daysTracked >= 2
        /\ stats.bestDay > stats.worstDay
        /\ stats.totalEarned % stats.daysTracked # 0
        /\ getMonthlyStats(earnings, 1, today).daysTracked = 0

\* C25: when an entry of amount A with surplus S > 0 is recorded while N
\* days of the running month are unpaid (the entry's own day apart), the
\* totalEarned of the running month grows by A + min(S, N * DAILY_GOAL).
C25_TotalEarnedIncrease ==
    (Recorded /\ Surplus > 0)
        => getMonthlyStats(earnings, MonthOf(last.now), last.now).totalEarned
            - getMonthlyStats(last.pre, MonthOf(last.now),
                              last.now).totalEarned
            = last.text.val
              + Min(Surplus, Cardinality(UnpaidDays) * DAILY_GOAL)

\* the days the list of days of a month shows as debt
DebtRows(m) ==
    {day \in DOMAIN getMonthDays(earnings, m, today) :
        StatusOf(m, day) = "debt"}

\* C26: for the running month and every month before it, daysMissed of the
\* statistics is the number of days without a record among the first
\* daysPassed days of the month, which is the number of days the list of
\* days shows as debt.
C26_MissedIsDebtDays ==
    \A m \in 0..((today - 1) \div MonthLen) :
        LET stats == getMonthlyStats(earnings, m, today)
            passed == IF (today - 1) \div MonthLen = m
                      THEN today - m * MonthLen ELSE MonthLen
            recordless == {day \in 1..passed :
                            RecordsOn(earnings, m * MonthLen + day) = {}}
        IN  /\ stats.daysMissed = Cardinality(recordless)
            /\ stats.daysMissed = Cardinality(DebtRows(m))
            /\ DebtRows(m) = recordless

\* the month that is over has two days with a record and two without, and
\* the running month has its one day without
C26_Witness ==
    /\ MonthOf(today) = 1
    /\ getMonthlyStats(earnings, 0, today).daysTracked >= 2
    /\ Cardinality(DebtRows(0)) >= 2
    /\ Cardinality(DebtRows(1)) = 1

\* the debt payments of a list
Payments(list) == SelectSeq(list, LAMBDA e : e.notes # "")

\* C27: once the entry of a day is deleted, an entry for the day is not
\* turned down as existing; when it is recorded over a list that holds debt
\* payments, those payments are kept as they were and its surplus pays, as
\* for any entry, the earliest days of the running month that have no
\* record, the days paid before not being among them.
C27_RepayAfterDelete ==
    /\ []((Recorded /\ Payments(last.pre) # << >>)
            => /\ \A i \in 1..Len(last.pre) :
                    \E j \in 1..Len(earnings) : earnings[j] = last.pre[i]
               /\ \A i \in 1..Len(last.newEntries) :
                    /\ RecordsOn(last.pre, last.newEntries[i].date) = {}
                    /\ last.newEntries[i].date \in UnpaidDays
                    /\ \A d \in UnpaidDays :
                        d < last.newEntries[i].date
                            => RecordsOn(earnings, d) # {}
               /\ Surplus > 0
                    => Len(last.newEntries)
                        = Min(Cardinality(UnpaidDays),
                              CeilDiv(Surplus, DAILY_GOAL)))
    /\ [][(last'.op = "add" /\ alert' = "Entry Exists")
            => RecordsOn(earnings, selectedDate) # {}]_vars

\* the entry of today was deleted and recorded again: every day of the
\* month up to today has a record, one entry of the user is in the list and
\* the debt payments add up to more than its surplus
C27_Witness ==
    /\ Recorded
    /\ last.date = last.now
    /\ Payments(last.pre) = last.pre
    /\ Len(last.pre) >= 2
    /\ Len(last.newEntries) >= 1
    /\ \A d \in StartOfMonth(today)..today : RecordsOn(earnings, d) # {}
    /\ SumAmounts(Payments(earnings)) > Surplus

\* ------------------------------------------------------------------ C28
\* the project as loadProjectData reads it back from the storage
ReloadedProject == foundProject(getProjects, projectId)

\* C28: after a successful addSubscriptionToProject the project reloaded
\* from the storage has the added subscription among its subscriptions, and
\* after a successful deleteSubscription the project reloaded from the
\* storage has the subscriptions it had but for the deleted one.
C28_SubscriptionRoundTrip ==
    [][/\ (last'.op = "addSubscriptionToProject" /\ last'.ok)
            => nextId \in IdsOf(subscriptionsOf(ReloadedProject'))
       /\ (last'.op = "deleteSubscription" /\ last'.ok)
            => \E subId \in IdsOf(subscriptionsOf(project)) :
                    IdsOf(subscriptionsOf(ReloadedProject')) =
                        IdsOf(subscriptionsOf(project)) \ {subId}]_vars

\* ------------------------------------------------------------------ C29
\* C29: every stored project's taskCount is the number of stored tasks
\* whose projectId is the id of the project.
C29_TaskCountIsStoredTasks ==
    \A i \in 1..Len(storedProjects) :
        storedProjects[i].taskCount =
            taskCountOf(storedTasks, storedProjects[i].id)

\* ------------------------------------------------------------------ C30
\* the handlers that complete the onboarding
Completions == {"completeOnboarding", "handleSkipOnboarding"}

\* C30: completing or skipping the onboarding puts the user on the task
\* list, whether the flag was saved or not, and the status check that the
\* task list then makes, reading the storage without error, leaves the
\* user there.
C30_OnboardingEnds ==
    [][/\ last'.op \in Completions => route' = "/(tabs)"
       /\ (/\ last.op \in Completions
           /\ last'.op = "checkOnboardingStatus"
           /\ last'.ok) => route' = "/(tabs)"]_vars

====
